---- MODULE Spec2Model ----
(***************************************************************************)
(* Quote aggregation and swap execution of SwapService, in its two         *)
(* variants:                                                               *)
(*   tee  : src/tee-txn-signer/src/swap/swap.service.ts                    *)
(*   meta : src/meta-swap-api/src/swap/dto/tokeninfo.dto.ts                *)
(* One request runs on the service.  Every await of the code is a pending  *)
(* call of the model; the settlement of a call and the continuation that   *)
(* then runs up to the next await form one action.                         *)
(***************************************************************************)
EXTENDS Integers, Sequences, FiniteSets, TLC

\* ------------------------------------------------------------------ bounds
\* Quotes answered by the providers carry outputAmount in 1..MaxOutputAmount
\* and fee in 1..MaxFee.
MaxOutputAmount == 2
MaxFee == 2

OutputAmounts == 1 .. MaxOutputAmount

\* Amount strings of a request have at most MaxAmountLen characters and the
\* tokens 0..MaxDecimals decimals.
MaxAmountLen == 4
MaxDecimals == 2

\* providers that answer true to the isInit calls of one of two concurrent requests
MaxActive == 2

Fees == 1 .. MaxFee

\* ------------------------------------------------------- program constants
\* this.providers = [okx, kyber, oneInchV6, openOcean]
Registry == << "okx", "kyber", "oneInchV6", "openOcean" >>

ProviderNames == { Registry[i] : i \in 1 .. Len(Registry) }

Variants == { "tee", "meta" }

Ops == { "getQuote", "swapTokens", "swapTokensByProvider", "getProviders" }

\* receipt.status as delivered by the signer: 1 is success, anything else not
ReceiptStatuses == { 0, 1, 2 }

\* "no quote": the null of getBestQuote and of an unset bestQuote
NoQuote == [ provider |-> "null", outputAmount |-> 0, fee |-> 0 ]

QuoteRecords == [ provider : ProviderNames, outputAmount : OutputAmounts, fee : Fees ]

NoResult ==
  [ kind |-> "pending", error |-> "", providers |-> << >>, provider |-> "",
    status |-> "", transactionHash |-> "", amountOut |-> 0, fee |-> 0 ]

\* this.etherService.getWallet().address
WalletAddress == "wallet"

\* addresses a provider may name in tx.to
Routers == { "router1", "router2" }

\* the amount literal of the approveERC20IfNot call, character by character
ApprovalAmount ==
  << "1", "1", "5", "7", "9", "2", "0", "8", "9", "2", "3", "7", "3",
     "1", "6", "1", "9", "5", "4", "2", "3", "5", "7", "0", "9", "8",
     "5", "0", "0", "8", "6", "8", "7", "9", "0", "7", "8", "5", "3",
     "2", "6", "9", "9", "8", "4", "6", "6", "5", "6", "4", "0", "5",
     "6", "4", "0", "3", "9", "4", "5", "7", "5", "8", "4", "0", "0",
     "7", "9", "1", "3", "1", "2", "9", "6", "3", "9", "9", "3", "5" >>

\* no approveERC20IfNot call made
NoApproval == [ tokenAddress |-> "", spenderAddress |-> "", amount |-> << >> ]

\* transaction hashes the signer may answer with
Hashes == { "h1", "h2" }

\* the receipt local of _swapTokens: not yet assigned, null, or a receipt
NoReceipt == [ state |-> "unset", hash |-> "", status |-> 0 ]

\* the requests that run on the service at the same time
Requests == { 1, 2 }

\* the aggregation calls of those requests before any of them has begun
NoConcurrent ==
  [ pc |-> [ r \in Requests |-> "start" ],
    caller |-> [ r \in Requests |-> "" ],
    initStatus |-> [ r \in Requests |-> [ p \in ProviderNames |-> "idle" ] ],
    task |-> [ r \in Requests |-> [ p \in ProviderNames |-> "idle" ] ],
    activeProviders |-> [ r \in Requests |-> << >> ],
    quotes |-> [ r \in Requests |-> << >> ],
    result |-> [ r \in Requests |-> << >> ] ]

VARIABLES
  concurrent,       \* the aggregation calls of requests running at the same time
  variant,          \* which SwapService this is
  providers,        \* this.providers, the registry
  op,               \* the entry point of the request
  request,          \* the request body
  decimals,         \* what EvmHelper.getDecimals answers for tokenIn and tokenOut
  params,           \* the SwapParams createSwapParams returned
  providerArg,      \* swapTokensByProvider's provider name
  pc,               \* the await the request is suspended at
  caller,           \* who awaits the running getActiveProviders
  initStatus,       \* per provider: the isInit call of the running/last getActiveProviders
  activeProviders,  \* getActiveProviders' local array
  roundActive,      \* the providers getQuotesFromProviders mapped (its activeProviders)
  task,             \* per provider: position of its callback in getQuotesFromProviders
  quotes,           \* getQuotesFromProviders' local array, which it returns
  bestQuote,        \* swapTokens/getQuote's bestQuote
  isSupported,      \* per provider: the isSupported of its callback, "" while unset
  quoteRecipients,  \* params.recipient as the getSwapQuote calls received it
  supportCalls,     \* per provider: isSwapSupported calls made
  quoteCalls,       \* per provider: getSwapQuote calls made
  target,           \* _swapTokens' provider
  recipient,        \* params.recipient, "" while the params have none
  txTo,             \* tx.to of that transaction, "" when it has none
  approval,         \* the argument of the approveERC20IfNot call
  unsignedTx,       \* unsignedTx.to of the envelope handed to the signer
  txFamily,         \* family of the transaction returned by getUnsignedTransaction
  calls,            \* execution calls made so far, in order
  inFlight,         \* execution calls started and not yet settled
  threw,            \* execution calls that have thrown
  signedTx,         \* _swapTokens' signedTx: "" before the call, "null", or its hash
  receipt,          \* _swapTokens' receipt
  result            \* what the request returned or threw

vars ==
  << concurrent, variant, providers, op, providerArg, request, decimals, params, pc, caller,
     initStatus, activeProviders,
     roundActive, task, quotes, bestQuote, isSupported, quoteRecipients,
     supportCalls, quoteCalls, target, recipient, txTo, approval, unsignedTx,
     txFamily, calls, inFlight,
     threw, signedTx, receipt, result >>

\* --------------------------------------------------------------- helpers
SeqToSet(s) == { s[i] : i \in 1 .. Len(s) }

\* ------------------------------------------------------------ getBestQuote
\* The reducer of quotes.reduce((best, current) => ...)
ReducerLt(best, current) ==
  IF current.outputAmount < best.outputAmount THEN current
  ELSE IF current.outputAmount = best.outputAmount /\ current.fee < best.fee THEN current
  ELSE best

ReducerNoFee(best, current) ==
  IF current.outputAmount > best.outputAmount THEN current
  ELSE best

Reducer(best, current) ==
  IF current.outputAmount > best.outputAmount THEN current
  ELSE IF current.outputAmount = best.outputAmount /\ current.fee < best.fee THEN current
  ELSE best

RECURSIVE Reduce(_, _, _)
\* Array.prototype.reduce without initial value, from index i with accumulator best
Reduce(qs, i, best) ==
  IF i > Len(qs) THEN best ELSE Reduce(qs, i + 1, Reducer(best, qs[i]))

\* what reduce without an initial value throws on an empty array
TypeError == [ provider |-> "TypeError", outputAmount |-> 0, fee |-> 0 ]

getBestQuoteUnguarded(qs) ==
  IF Len(qs) = 0 THEN TypeError ELSE Reduce(qs, 2, qs[1])

getBestQuote(qs) ==
  IF Len(qs) = 0 THEN NoQuote ELSE Reduce(qs, 2, qs[1])


\* ---------------------------------------------------------------- promises
\* Promise.all over the promises of the mapped callbacks: rejected as soon as
\* one is rejected, fulfilled once all are fulfilled (at once for no promise)
PromiseRace(states) ==
  IF "rejected" \in states THEN "rejected"
  ELSE IF states = { } \/ "fulfilled" \in states THEN "fulfilled"
  ELSE "pending"

PromiseAll(states) ==
  IF "rejected" \in states THEN "rejected"
  ELSE IF states \subseteq { "fulfilled" } THEN "fulfilled"
  ELSE "pending"

\* The promise of one callback of getActiveProviders:
\*   async (provider) => { try { await provider.isInit() ... } catch { warn } }
InitCallbackEager(status) == "fulfilled"

InitCallback(status) ==
  IF status = "pending" THEN "pending" ELSE "fulfilled"

\* if (isInit) activeProviders.push(provider)
ActivePushAlways(list, p, outcome) ==
  IF outcome \in { "true", "false" } THEN Append(list, p) ELSE list

ActivePush(list, p, outcome) ==
  IF outcome = "true" THEN Append(list, p) ELSE list

\* The promise of one callback of getQuotesFromProviders:
\*   async (provider) => { try { isSwapSupported ... getSwapQuote ... push } catch { warn } }
QuoteCallbackNoCatch(t) ==
  IF t \in { "isSwapSupported", "getSwapQuote" } THEN "pending"
  ELSE IF t \in { "supportThrew", "quoteThrew" } THEN "rejected"
  ELSE "fulfilled"

QuoteCallbackHangs(t) ==
  IF t \in { "isSwapSupported", "getSwapQuote", "notSupported" } THEN "pending"
  ELSE "fulfilled"

QuoteCallback(t) ==
  IF t \in { "isSwapSupported", "getSwapQuote" } THEN "pending" ELSE "fulfilled"

InitPromises == { InitCallback(initStatus[p]) : p \in SeqToSet(providers) }

QuotePromises == { QuoteCallback(task[p]) : p \in roundActive }

\* await Promise.all(this.providers.map(...)) in getActiveProviders
GetActiveProvidersAwait == PromiseAll(InitPromises)

\* await Promise.all(activeProviders.map(...)) in getQuotesFromProviders
GetQuotesFromProvidersAwait == PromiseAll(QuotePromises)

\* swapTokensByProvider's loop: the first active provider whose getName() is name
FindProviderRegistered(list, name) ==
  IF name \in ProviderNames THEN name ELSE "null"

FindProviderFirst(list, name) ==
  IF Len(list) > 0 THEN list[1] ELSE "null"

FindProvider(list, name) ==
  IF \E i \in 1 .. Len(list) : list[i] = name
  THEN list[CHOOSE i \in 1 .. Len(list) :
              list[i] = name /\ \A j \in 1 .. i - 1 : list[j] # name]
  ELSE "null"

\* --------------------------------------------------------- request values
\* A string is the sequence of its characters.
DigitString == << "0", "1", "2", "3", "4", "5", "6", "7", "8", "9" >>

DigitChars == SeqToSet(DigitString)

DigitChar(v) == DigitString[v + 1]

DigitValue(c) == (CHOOSE i \in 1 .. 10 : DigitString[i] = c) - 1

AllDigits(s) == \A i \in 1 .. Len(s) : s[i] \in DigitChars

RECURSIVE FromDigits(_)
\* the number written by a sequence of digits
FromDigits(s) ==
  IF s = << >> THEN 0
  ELSE FromDigits(SubSeq(s, 1, Len(s) - 1)) * 10 + DigitValue(s[Len(s)])

RECURSIVE Zeros(_)
Zeros(n) == IF n <= 0 THEN << >> ELSE << "0" >> \o Zeros(n - 1)

\* the groups of /^(-?)([0-9]*)\.?([0-9]*)$/ on a string, when it matches
Negative(s) == Len(s) > 0 /\ s[1] = "-"

Unsigned(s) == IF Negative(s) THEN Tail(s) ELSE s

DotAt(u) ==
  IF \E i \in 1 .. Len(u) : u[i] = "."
  THEN CHOOSE i \in 1 .. Len(u) : u[i] = "." /\ \A j \in 1 .. i - 1 : u[j] # "."
  ELSE 0

Whole(s) ==
  IF DotAt(Unsigned(s)) = 0 THEN Unsigned(s)
  ELSE SubSeq(Unsigned(s), 1, DotAt(Unsigned(s)) - 1)

Fraction(s) ==
  IF DotAt(Unsigned(s)) = 0 THEN << >>
  ELSE SubSeq(Unsigned(s), DotAt(Unsigned(s)) + 1, Len(Unsigned(s)))

Matches(s) == AllDigits(Whole(s)) /\ AllDigits(Fraction(s))

\* ethers.parseUnits(value, unit): the fraction is padded with zeros to
\* unit digits, digits beyond unit must all be zero, and the integer
\* is read from sign, whole part and the first unit digits of the fraction
ParseUnits(value, unit) ==
  LET whole == IF Whole(value) = << >> THEN << "0" >> ELSE Whole(value)
      padded == Fraction(value) \o Zeros(unit - Len(Fraction(value)))
      excess == SubSeq(padded, unit + 1, Len(padded))
      digits == whole \o SubSeq(padded, 1, unit)
  IN  IF ~ Matches(value) \/ Len(Whole(value)) + Len(Fraction(value)) = 0
      THEN [ ok |-> FALSE, error |-> "invalid FixedNumber string value", value |-> 0 ]
      ELSE IF \E i \in 1 .. Len(excess) : excess[i] # "0"
      THEN [ ok |-> FALSE, error |-> "too many decimals for format", value |-> 0 ]
      ELSE [ ok |-> TRUE, error |-> "",
             value |-> IF Negative(value) THEN 0 - FromDigits(digits)
                       ELSE FromDigits(digits) ]

RECURSIVE BigIntToString(_)
\* bigint.toString()
BigIntToString(n) ==
  IF n < 0 THEN << "-" >> \o BigIntToString(0 - n)
  ELSE IF n < 10 THEN << DigitChar(n) >>
  ELSE BigIntToString(n \div 10) \o << DigitChar(n % 10) >>

\* new BigNumber(string, 10) of the string of an integer
BigNumber(s) ==
  IF Negative(s) THEN 0 - FromDigits(Unsigned(s)) ELSE FromDigits(Unsigned(s))

\* @IsNumberString(): /^[+-]?([0-9]*[.])?[0-9]+$/
IsNumberString(s) ==
  /\ Matches(s)
  /\ Len(Unsigned(s)) > 0
  /\ Unsigned(s)[Len(Unsigned(s))] \in DigitChars

\* A slippage value of a request body: the key is absent, or its value is null
\* or a number.  Numbers are counted in tenths of a percent.
SlippageMin == 0
SlippageMax == 1000
SlippageDefault == 5

AbsentSlippage == [ kind |-> "absent", value |-> 0 ]

NullSlippage == [ kind |-> "null", value |-> 0 ]

Number(v) == [ kind |-> "number", value |-> v ]

\* The decorators of slippage in the DTO the operation is declared with:
\* SwapRequestDto has @IsNumber @IsOptional @Max(100) @Min(0), QuoteRequestDto
\* declares no slippage and the pipe lets undeclared properties through
SlippageValid(o, slippage) ==
  IF o = "getQuote" THEN TRUE
  ELSE IF slippage.kind \in { "absent", "null" } THEN TRUE
  ELSE slippage.value >= SlippageMin /\ slippage.value <= SlippageMax

\* decimals: 18 of the tee variant
TeeDecimals == 18

\* the decimals parseUnits scales by
ScaleDecimalsOut(tokenInDecimals, tokenOutDecimals) == tokenOutDecimals

ScaleDecimals(tokenInDecimals, tokenOutDecimals) == tokenInDecimals

NoParams ==
  [ built |-> FALSE, error |-> "", fromAddress |-> "", toAddress |-> "",
    fromDecimals |-> 0, toDecimals |-> 0,
    amount |-> 0, slippageTolerance |-> AbsentSlippage ]

\* 'slippage' in request ? request.slippage : 0.5
SlippageTolerance(req) ==
  IF req.slippage.kind # "absent" THEN req.slippage ELSE Number(SlippageDefault)

\* createSwapParams(request), the decimals being what getDecimals answered
createSwapParams(v, req, tokenInDecimals, tokenOutDecimals) ==
  IF v = "tee"
  THEN [ NoParams EXCEPT !.built = TRUE,
                         !.fromAddress = req.tokenIn, !.toAddress = req.tokenOut,
                         !.fromDecimals = TeeDecimals, !.toDecimals = TeeDecimals,
                         !.amount = BigNumber(req.amountIn),
                         !.slippageTolerance = SlippageTolerance(req) ]
  ELSE LET parsed == ParseUnits(req.normalAmountIn,
                                ScaleDecimals(tokenInDecimals, tokenOutDecimals))
       IN  IF ~ parsed.ok THEN [ NoParams EXCEPT !.error = parsed.error ]
           ELSE [ NoParams EXCEPT !.built = TRUE,
                                  !.fromAddress = req.tokenIn,
                                  !.toAddress = req.tokenOut,
                                  !.fromDecimals = tokenInDecimals,
                                  !.toDecimals = tokenOutDecimals,
                                  !.amount = BigNumber(BigIntToString(parsed.value)),
                                  !.slippageTolerance = SlippageTolerance(req) ]

\* the request of the runs that do not look into it, and its tokens' decimals
DefaultRequest ==
  [ tokenIn |-> "tokenIn", tokenOut |-> "tokenOut", amountIn |-> << "1" >>,
    normalAmountIn |-> << "1" >>, slippage |-> AbsentSlippage ]

DefaultDecimals == [ tokenIn |-> MaxDecimals, tokenOut |-> MaxDecimals ]

\* ------------------------------------------------------------------- state
reqVars == << concurrent, variant, providers, op, providerArg, request, decimals >>
gapVars == << caller, initStatus, activeProviders >>
quoteVars ==
  << roundActive, task, quotes, bestQuote, isSupported, quoteRecipients,
     supportCalls, quoteCalls >>
execVars ==
  << target, recipient, txTo, approval, unsignedTx, txFamily, calls, inFlight, threw,
     signedTx, receipt >>

Init ==
  /\ concurrent = NoConcurrent
  /\ variant \in Variants
  /\ providers = Registry
  /\ op \in Ops
  /\ providerArg \in (IF op = "swapTokensByProvider"
                      THEN ProviderNames \cup { "unknown" } ELSE { "" })
  /\ request = DefaultRequest
  /\ decimals = DefaultDecimals
  /\ params = NoParams
  /\ pc = "start"
  /\ caller = ""
  /\ initStatus = [ p \in ProviderNames |-> "idle" ]
  /\ activeProviders = << >>
  /\ roundActive = { }
  /\ isSupported = [ p \in ProviderNames |-> "" ]
  /\ quoteRecipients = { }
  /\ recipient = ""
  /\ supportCalls = [ p \in ProviderNames |-> 0 ]
  /\ quoteCalls = [ p \in ProviderNames |-> 0 ]
  /\ task = [ p \in ProviderNames |-> "idle" ]
  /\ quotes = << >>
  /\ bestQuote = NoQuote
  /\ target = "null"
  /\ txFamily = ""
  /\ txTo = ""
  /\ approval = NoApproval
  /\ unsignedTx = ""
  /\ calls = << >>
  /\ inFlight = { }
  /\ threw = { }
  /\ signedTx = ""
  /\ receipt = NoReceipt
  /\ result = NoResult

\* a call of getActiveProviders by c: every isInit is started before the await
CallGetActiveProviders(c) ==
  /\ pc' = "getActiveProviders"
  /\ caller' = c
  /\ initStatus' = [ p \in ProviderNames |-> IF p \in SeqToSet(providers) THEN "pending" ELSE "idle" ]
  /\ activeProviders' = << >>

\* an awaited call has settled
NotSettled(pending, call) == pending

Settled(pending, call) == pending \ { call }

\* params.recipient = this.etherService.getWallet().address
InjectNothing(address) == ""

InjectRecipient(address) == address

\* _swapTokens(provider, params) up to its first await
CallSwapTokensInner(p) ==
  /\ pc' = "getUnsignedTransaction"
  /\ target' = p
  /\ recipient' = InjectRecipient(WalletAddress)
  /\ calls' = calls \o << "getWallet", "getUnsignedTransaction" >>
  /\ inFlight' = inFlight \cup { "getUnsignedTransaction" }
  /\ UNCHANGED << txTo, approval, unsignedTx, txFamily, threw, signedTx, receipt >>

\* the request rejects with error e
Fail(e) ==
  /\ pc' = "done"
  /\ result' = [ NoResult EXCEPT !.kind = "error", !.error = e ]


\* ------------------------------------------------------------ entry points
\* createSwapParams, then what follows it in swapTokens and getQuote: the tee
\* variant builds the params synchronously, the meta variant awaits getDecimals
EnterCreateSwapParams ==
  IF variant = "tee"
  THEN /\ params' = createSwapParams(variant, request, decimals.tokenIn, decimals.tokenOut)
       /\ CallGetActiveProviders("getQuotesFromProviders")
  ELSE pc' = "getDecimalsIn" /\ UNCHANGED << params, gapVars >>

SwapTokens ==
  /\ pc = "start" /\ op = "swapTokens"
  /\ EnterCreateSwapParams
  /\ UNCHANGED << reqVars, quoteVars, execVars, result >>

GetQuote ==
  /\ pc = "start" /\ op = "getQuote"
  /\ EnterCreateSwapParams
  /\ UNCHANGED << reqVars, quoteVars, execVars, result >>

SwapTokensByProvider ==
  /\ pc = "start" /\ op = "swapTokensByProvider"
  /\ CallGetActiveProviders("swapTokensByProvider")
  /\ UNCHANGED << reqVars, params, quoteVars, execVars, result >>

GetProviders ==
  /\ pc = "start" /\ op = "getProviders"
  /\ CallGetActiveProviders("getProviders")
  /\ UNCHANGED << reqVars, params, quoteVars, execVars, result >>

\* ------------------------------------------------- createSwapParams (meta)
\* await EvmHelper.getDecimals for tokenIn settles
GetDecimalsIn(ok) ==
  /\ pc = "getDecimalsIn"
  /\ IF ok THEN pc' = "getDecimalsOut" /\ UNCHANGED result ELSE Fail("getDecimals")
  /\ UNCHANGED << reqVars, params, gapVars, quoteVars, execVars >>

\* await EvmHelper.getDecimals for tokenOut settles; the params are returned
GetDecimalsOut(ok) ==
  /\ pc = "getDecimalsOut"
  /\ IF ~ok
     THEN Fail("getDecimals") /\ UNCHANGED << params, gapVars, execVars >>
     ELSE /\ params' = createSwapParams(variant, request, decimals.tokenIn,
                                        decimals.tokenOut)
          /\ IF ~ params'.built
             THEN Fail(params'.error) /\ UNCHANGED << gapVars, execVars >>
             ELSE IF op = "swapTokensByProvider"
             THEN CallSwapTokensInner(target) /\ UNCHANGED << gapVars, result >>
             ELSE /\ CallGetActiveProviders("getQuotesFromProviders")
                  /\ UNCHANGED << execVars, result >>
  /\ UNCHANGED << reqVars, quoteVars >>

\* ------------------------------------------------------ getActiveProviders
\* provider.isInit() of p settles and the callback runs to its end
IsInit(p, outcome) ==
  /\ initStatus[p] = "pending"
  /\ initStatus' = [ initStatus EXCEPT ![p] = outcome ]
  /\ activeProviders' = ActivePush(activeProviders, p, outcome)
  /\ UNCHANGED << reqVars, params, pc, caller, quoteVars, execVars, result >>

\* Promise.all has settled: getActiveProviders returns activeProviders
GetActiveProvidersReturn ==
  /\ pc = "getActiveProviders"
  /\ GetActiveProvidersAwait # "pending"
  /\ IF GetActiveProvidersAwait = "rejected"
     THEN Fail("isInit")
     ELSE pc' = "getActiveProvidersReturned" /\ UNCHANGED result
  /\ UNCHANGED << reqVars, params, gapVars, quoteVars, execVars >>

\* getProviders resumes with the active providers
GetProvidersResume ==
  /\ pc = "getActiveProvidersReturned" /\ caller = "getProviders"
  /\ pc' = "done"
  /\ result' = [ NoResult EXCEPT !.kind = "providers", !.providers = activeProviders ]
  /\ UNCHANGED << reqVars, params, gapVars, quoteVars, execVars >>

\* swapTokensByProvider resumes with the active providers
SwapTokensByProviderResume ==
  /\ pc = "getActiveProvidersReturned" /\ caller = "swapTokensByProvider"
  /\ LET targetProvider == FindProvider(activeProviders, providerArg) IN
     IF targetProvider = "null"
     THEN Fail("Unsupported provider") /\ UNCHANGED << params, execVars >>
     ELSE IF variant = "tee"
     THEN /\ params' = createSwapParams(variant, request, decimals.tokenIn,
                                        decimals.tokenOut)
          /\ CallSwapTokensInner(targetProvider) /\ UNCHANGED result
     ELSE /\ pc' = "getDecimalsIn"
          /\ target' = targetProvider
          /\ UNCHANGED params
          /\ UNCHANGED << recipient, txTo, approval, unsignedTx, txFamily, calls,
                          inFlight, threw, signedTx, receipt, result >>
  /\ UNCHANGED << reqVars, gapVars, quoteVars >>

\* getQuotesFromProviders resumes with the active providers and maps them:
\* one callback per active provider, each run up to its isSwapSupported call.
\* Nothing reads the array after the map.
GetQuotesFromProvidersResume ==
  /\ pc = "getActiveProvidersReturned" /\ caller = "getQuotesFromProviders"
  /\ pc' = "getQuotesFromProviders"
  /\ roundActive' = SeqToSet(activeProviders)
  /\ task' = [ p \in ProviderNames |->
               IF p \in SeqToSet(activeProviders) THEN "isSwapSupported" ELSE "idle" ]
  /\ supportCalls' = [ p \in ProviderNames |->
                       IF p \in SeqToSet(activeProviders)
                       THEN supportCalls[p] + 1 ELSE supportCalls[p] ]
  /\ quotes' = << >>
  /\ activeProviders' = << >>
  /\ UNCHANGED << reqVars, params, caller, initStatus, bestQuote, isSupported,
                  quoteRecipients, quoteCalls, execVars, result >>

\* the construction of NoValidQuote resumes with the active providers
NoValidQuoteResume ==
  /\ pc = "getActiveProvidersReturned" /\ caller = "NoValidQuote"
  /\ pc' = "done"
  /\ result' = [ NoResult EXCEPT !.kind = "error", !.error = "NoValidQuote",
                                 !.providers = activeProviders ]
  /\ UNCHANGED << reqVars, params, gapVars, quoteVars, execVars >>

\* -------------------------------------------------- getQuotesFromProviders
\* if (!isSupported) return;  then  await provider.getSwapQuote(params)
AfterSupportIgnored(outcome) ==
  IF outcome \in { "true", "false" } THEN "getSwapQuote" ELSE "supportThrew"

AfterSupport(outcome) ==
  CASE outcome = "true" -> "getSwapQuote"
    [] outcome = "false" -> "notSupported"
    [] OTHER -> "supportThrew"

\* provider.isSwapSupported(fromToken, toToken) of p settles
IsSwapSupported(p, outcome) ==
  /\ task[p] = "isSwapSupported"
  /\ isSupported' = IF outcome = "throw" THEN isSupported
                    ELSE [ isSupported EXCEPT ![p] = outcome ]
  /\ task' = [ task EXCEPT ![p] = AfterSupport(outcome) ]
  /\ quoteCalls' = IF AfterSupport(outcome) = "getSwapQuote"
                   THEN [ quoteCalls EXCEPT ![p] = @ + 1 ] ELSE quoteCalls
  /\ quoteRecipients' = IF AfterSupport(outcome) = "getSwapQuote"
                        THEN quoteRecipients \cup { recipient } ELSE quoteRecipients
  /\ UNCHANGED << reqVars, params, pc, gapVars, roundActive, quotes, bestQuote,
                  supportCalls, execVars, result >>

\* provider.getSwapQuote(params) of p throws
GetSwapQuoteThrows(p) ==
  /\ task[p] = "getSwapQuote"
  /\ task' = [ task EXCEPT ![p] = "quoteThrew" ]
  /\ UNCHANGED << reqVars, params, pc, gapVars, roundActive, quotes, bestQuote, isSupported,
                  quoteRecipients, supportCalls, quoteCalls, execVars, result >>

\* provider.getSwapQuote(params) of p returns: quotes.push({ ...quote, provider })
GetSwapQuote(p, out, fee) ==
  /\ task[p] = "getSwapQuote"
  /\ task' = [ task EXCEPT ![p] = "quoted" ]
  /\ quotes' = Append(quotes, [ provider |-> p, outputAmount |-> out, fee |-> fee ])
  /\ UNCHANGED << reqVars, params, pc, gapVars, roundActive, bestQuote, isSupported,
                  quoteRecipients, supportCalls, quoteCalls, execVars, result >>

\* Promise.all has settled: getQuotesFromProviders returns quotes
GetQuotesFromProvidersReturn ==
  /\ pc = "getQuotesFromProviders"
  /\ GetQuotesFromProvidersAwait # "pending"
  /\ IF GetQuotesFromProvidersAwait = "rejected"
     THEN Fail("getSwapQuote")
     ELSE pc' = "getQuotesFromProvidersReturned" /\ UNCHANGED result
  /\ UNCHANGED << reqVars, params, gapVars, quoteVars, execVars >>

\* the callbacks that have run to their end are gone with the round
Released(t) ==
  [ p \in ProviderNames |-> IF QuoteCallback(t[p]) = "pending" THEN t[p] ELSE "idle" ]

\* getQuote returns the best quote where swapTokens goes on to _swapTokens
ReturnsQuoteNever(o) == FALSE

ReturnsQuote(o) == o = "getQuote"

\* swapTokens / getQuote resume with the quotes, pick the best one and go on
\* to the error, the answer or the execution; the quote list is not read again
SelectBestQuote ==
  /\ pc = "getQuotesFromProvidersReturned"
  /\ bestQuote' = getBestQuote(quotes)
  /\ IF bestQuote' = NoQuote
     THEN CallGetActiveProviders("NoValidQuote") /\ UNCHANGED << execVars, result >>
     ELSE IF ReturnsQuote(op)
     THEN /\ pc' = "done"
          /\ result' = [ NoResult EXCEPT !.kind = "quote",
                                         !.provider = bestQuote'.provider,
                                         !.amountOut = bestQuote'.outputAmount,
                                         !.fee = bestQuote'.fee ]
          /\ UNCHANGED << gapVars, execVars >>
     ELSE CallSwapTokensInner(bestQuote'.provider) /\ UNCHANGED << gapVars, result >>
  /\ task' = Released(task)
  /\ isSupported' = [ p \in ProviderNames |-> "" ]
  /\ quotes' = << >>
  /\ UNCHANGED << reqVars, params, roundActive, quoteRecipients, supportCalls, quoteCalls >>

\* ------------------------------------------------------------- _swapTokens
\* if ('instructions' in tx) throw new NotSupportedSigner()  -- meta only
FamilyCheck(v, family) == v = "meta" /\ family = "solana"

\* the argument of await this.etherService.approveERC20IfNot({ ... })
ApproveRequestExact(prm, to) ==
  [ tokenAddress |-> prm.fromAddress, spenderAddress |-> to,
    amount |-> BigIntToString(prm.amount) ]

ApproveRequest(prm, to) ==
  [ tokenAddress |-> prm.fromAddress, spenderAddress |-> to, amount |-> ApprovalAmount ]

\* provider.getUnsignedTransaction(params) settles: it throws, or returns an
\* EVM transaction to a router, or a Solana transaction, which has no to
GetUnsignedTransaction(outcome, to) ==
  /\ pc = "getUnsignedTransaction"
  /\ IF outcome = "evm" THEN to \in Routers ELSE to = ""
  /\ IF outcome = "throw"
     THEN /\ Fail("getUnsignedTransaction")
          /\ threw' = threw \cup { "getUnsignedTransaction" }
          /\ inFlight' = Settled(inFlight, "getUnsignedTransaction")
          /\ UNCHANGED << txFamily, txTo, approval, calls >>
     ELSE /\ txFamily' = outcome
          /\ txTo' = to
          /\ UNCHANGED threw
          /\ IF FamilyCheck(variant, outcome)
             THEN /\ Fail("NotSupportedSigner")
                  /\ inFlight' = Settled(inFlight, "getUnsignedTransaction")
                  /\ UNCHANGED << approval, calls >>
             ELSE /\ pc' = "approveERC20IfNot"
                  /\ approval' = ApproveRequest(params, txTo')
                  /\ calls' = Append(calls, "approveERC20IfNot")
                  /\ inFlight' = Settled(inFlight, "getUnsignedTransaction")
                                   \cup { "approveERC20IfNot" }
                  /\ UNCHANGED result
  /\ UNCHANGED << reqVars, params, gapVars, quoteVars, target, recipient, unsignedTx,
                  signedTx, receipt >>

\* What await approveERC20IfNot and the construction of unsignedTx throw, ""
\* for nothing: parseEther and toBigInt throw on a malformed value or gasLimit
ApproveThrowIgnored(ok, envelopeOk) ==
  IF ~envelopeOk THEN "unsignedTx" ELSE ""

ApproveOutcome(ok, envelopeOk) ==
  IF ~ok THEN "approveERC20IfNot"
  ELSE IF ~envelopeOk THEN "unsignedTx"
  ELSE ""

\* etherService.approveERC20IfNot settles; the envelope is built and sent
ApproveERC20IfNot(ok, envelopeOk) ==
  /\ pc = "approveERC20IfNot"
  /\ threw' = IF ok THEN threw ELSE threw \cup { "approveERC20IfNot" }
  /\ IF ApproveOutcome(ok, envelopeOk) # ""
     THEN /\ Fail(ApproveOutcome(ok, envelopeOk))
          /\ inFlight' = Settled(inFlight, "approveERC20IfNot")
          /\ UNCHANGED << unsignedTx, calls >>
     ELSE /\ pc' = "buildAndSendTransaction"
          /\ unsignedTx' = txTo
          /\ calls' = Append(calls, "buildAndSendTransaction")
          /\ inFlight' = Settled(inFlight, "approveERC20IfNot")
                           \cup { "buildAndSendTransaction" }
          /\ UNCHANGED result
  /\ UNCHANGED << reqVars, params, gapVars, quoteVars, target, recipient, txTo,
                  approval, txFamily, signedTx, receipt >>

\* if (!signedTx)
SignedTxNeverMissing(tx) == FALSE

SignedTxMissing(tx) == tx = "null"

\* etherService.buildAndSendTransaction settles
BuildAndSendTransaction(outcome) ==
  /\ pc = "buildAndSendTransaction"
  /\ inFlight' = Settled(inFlight, "buildAndSendTransaction")
                   \cup (IF outcome = "throw" \/ SignedTxMissing(outcome)
                         THEN { } ELSE { "waitForTransaction" })
  /\ IF outcome = "throw"
     THEN /\ Fail("buildAndSendTransaction")
          /\ threw' = threw \cup { "buildAndSendTransaction" }
          /\ UNCHANGED << calls, signedTx >>
     ELSE /\ signedTx' = outcome
          /\ UNCHANGED threw
          /\ IF SignedTxMissing(outcome)
             THEN Fail("Cannot send transaction") /\ UNCHANGED calls
             ELSE /\ pc' = "waitForTransaction"
                  /\ calls' = Append(calls, "waitForTransaction")
                  /\ UNCHANGED result
  /\ UNCHANGED << reqVars, params, gapVars, quoteVars, target, recipient, txTo,
                  approval, unsignedTx, txFamily, receipt >>

\* etherService.waitForTransaction throws or finds no receipt
WaitForTransactionFails(outcome) ==
  /\ pc = "waitForTransaction"
  /\ inFlight' = Settled(inFlight, "waitForTransaction")
  /\ IF outcome = "throw"
     THEN /\ Fail("waitForTransaction")
          /\ threw' = threw \cup { "waitForTransaction" }
          /\ UNCHANGED receipt
     ELSE /\ receipt' = [ NoReceipt EXCEPT !.state = "null" ]
          /\ Fail("Cannot find transaction receipt")
          /\ UNCHANGED threw
  /\ UNCHANGED << reqVars, params, gapVars, quoteVars, target, recipient, txTo,
                  approval, unsignedTx, txFamily, calls, signedTx >>

\* receipt.status === 1 ? 'success' : 'failed'
ExecutionStatusTruthy(status) == IF status # 0 THEN "success" ELSE "failed"

ExecutionStatus(status) == IF status = 1 THEN "success" ELSE "failed"

\* etherService.waitForTransaction returns a receipt; the result is returned
WaitForTransaction(hash, status) ==
  /\ pc = "waitForTransaction"
  /\ inFlight' = Settled(inFlight, "waitForTransaction")
  /\ receipt' = [ state |-> "receipt", hash |-> hash, status |-> status ]
  /\ pc' = "done"
  /\ result' = [ NoResult EXCEPT !.kind = "exec",
                                 !.transactionHash = receipt'.hash,
                                 !.status = ExecutionStatus(receipt'.status),
                                 !.provider = target ]
  /\ UNCHANGED << reqVars, params, gapVars, quoteVars, target, recipient, txTo,
                  approval, unsignedTx, txFamily, calls, threw, signedTx >>

\* ------------------------------------------------------------ specification
Next ==
  \/ SwapTokens
  \/ GetQuote
  \/ SwapTokensByProvider
  \/ GetProviders
  \/ \E ok \in BOOLEAN : GetDecimalsIn(ok)
  \/ \E ok \in BOOLEAN : GetDecimalsOut(ok)
  \/ \E p \in ProviderNames, outcome \in { "true", "false", "throw" } : IsInit(p, outcome)
  \/ GetActiveProvidersReturn
  \/ GetProvidersResume
  \/ SwapTokensByProviderResume
  \/ GetQuotesFromProvidersResume
  \/ NoValidQuoteResume
  \/ \E p \in ProviderNames, outcome \in { "true", "false", "throw" } : IsSwapSupported(p, outcome)
  \/ \E p \in ProviderNames : GetSwapQuoteThrows(p)
  \/ \E p \in ProviderNames, out \in OutputAmounts, fee \in Fees : GetSwapQuote(p, out, fee)
  \/ GetQuotesFromProvidersReturn
  \/ SelectBestQuote
  \/ \E outcome \in { "evm", "solana", "throw" }, to \in Routers \cup { "" } :
       GetUnsignedTransaction(outcome, to)
  \/ \E ok \in BOOLEAN, envelopeOk \in BOOLEAN : ApproveERC20IfNot(ok, envelopeOk)
  \/ \E outcome \in Hashes \cup { "null", "throw" } : BuildAndSendTransaction(outcome)
  \/ \E outcome \in { "null", "throw" } : WaitForTransactionFails(outcome)
  \/ \E hash \in Hashes, status \in ReceiptStatuses : WaitForTransaction(hash, status)

Spec == Init /\ [][Next]_vars

\* ------------------------------------------------------------ termination
\* The steps of the provider calls, of the signer calls and of the service's own
\* continuations, every quote being the smallest one: the amounts of the quotes
\* decide which provider executes, not whether the request goes on.
CallsSettle ==
  \/ SwapTokens
  \/ GetQuote
  \/ SwapTokensByProvider
  \/ GetProviders
  \/ \E p \in ProviderNames, outcome \in { "true", "false", "throw" } : IsInit(p, outcome)
  \/ GetActiveProvidersReturn
  \/ GetProvidersResume
  \/ SwapTokensByProviderResume
  \/ GetQuotesFromProvidersResume
  \/ NoValidQuoteResume
  \/ \E p \in ProviderNames, outcome \in { "true", "false", "throw" } : IsSwapSupported(p, outcome)
  \/ \E p \in ProviderNames : GetSwapQuoteThrows(p)
  \/ \E p \in ProviderNames : GetSwapQuote(p, 1, 1)
  \/ GetQuotesFromProvidersReturn
  \/ SelectBestQuote
  \/ \E outcome \in { "evm", "solana", "throw" }, to \in Routers \cup { "" } :
       GetUnsignedTransaction(outcome, to)
  \/ \E ok \in BOOLEAN, envelopeOk \in BOOLEAN : ApproveERC20IfNot(ok, envelopeOk)
  \/ \E outcome \in Hashes \cup { "null", "throw" } : BuildAndSendTransaction(outcome)
  \/ \E outcome \in { "null", "throw" } : WaitForTransactionFails(outcome)
  \/ \E hash \in Hashes, status \in ReceiptStatuses : WaitForTransaction(hash, status)

\* EvmHelper.getDecimals is a call of neither a provider nor the signer
NextLive ==
  \/ CallsSettle
  \/ \E ok \in BOOLEAN : GetDecimalsIn(ok)
  \/ \E ok \in BOOLEAN : GetDecimalsOut(ok)

\* Every started provider call and signer call settles and the continuation of
\* a settled call runs; nothing is assumed of the token-metadata lookups.
SpecLive == Init /\ [][NextLive]_vars /\ WF_vars(CallsSettle)



\* ------------------------------------------------- getBestQuote on any list
\* Every list of at most one quote per registered provider, with the quote
\* values in every order, is handed to getBestQuote.
QuoteLists ==
  UNION { { [ i \in 1 .. n |-> [ provider |-> Registry[i],
                                  outputAmount |-> v[i][1], fee |-> v[i][2] ] ] :
            v \in [ 1 .. n -> OutputAmounts \X Fees ] } : n \in 0 .. Len(Registry) }

InitSelect ==
  /\ concurrent = NoConcurrent
  /\ variant \in Variants
  /\ providers = Registry
  /\ op = "getBestQuote"
  /\ providerArg = ""
  /\ request = DefaultRequest
  /\ decimals = DefaultDecimals
  /\ params = NoParams
  /\ pc = "getBestQuote"
  /\ caller = ""
  /\ initStatus = [ p \in ProviderNames |-> "idle" ]
  /\ activeProviders = << >>
  /\ roundActive = { }
  /\ isSupported = [ p \in ProviderNames |-> "" ]
  /\ quoteRecipients = { }
  /\ recipient = ""
  /\ supportCalls = [ p \in ProviderNames |-> 0 ]
  /\ quoteCalls = [ p \in ProviderNames |-> 0 ]
  /\ task = [ p \in ProviderNames |-> "idle" ]
  /\ quotes \in QuoteLists
  /\ bestQuote = NoQuote
  /\ target = "null"
  /\ txFamily = ""
  /\ txTo = ""
  /\ approval = NoApproval
  /\ unsignedTx = ""
  /\ calls = << >>
  /\ inFlight = { }
  /\ threw = { }
  /\ signedTx = ""
  /\ receipt = NoReceipt
  /\ result = NoResult

\* bestQuote = this.getBestQuote(quotes)
ApplyGetBestQuote ==
  /\ pc = "getBestQuote"
  /\ pc' = "selected"
  /\ bestQuote' = getBestQuote(quotes)
  /\ UNCHANGED << reqVars, params, gapVars, roundActive, task, quotes, isSupported,
                  quoteRecipients, supportCalls, quoteCalls, execVars, result >>

NextSelect == ApplyGetBestQuote

SpecSelect == InitSelect /\ [][NextSelect]_vars

\* --------------------------------------------- createSwapParams on any request
\* the characters amount strings are written with
AmountChars == { "-", ".", "0", "1", "5" }

AmountStrings == UNION { [ 1 .. n -> AmountChars ] : n \in 0 .. MaxAmountLen }

\* Bodies sent to the tee variant: amountIn is documented as an integer string
TeeRequests ==
  [ tokenIn : { "tokenIn" }, tokenOut : { "tokenOut" },
    amountIn : { a \in AmountStrings : "." \notin SeqToSet(a) },
    normalAmountIn : { << >> },
    slippage : { AbsentSlippage, NullSlippage } \cup
               { Number(v) : v \in { SlippageMin - 1, SlippageMin, SlippageDefault,
                                     SlippageMax, SlippageMax + 1 } } ]

\* Requests the meta variant's handlers receive: any amount string, and a
\* slippage that is absent or in range
MetaRequests ==
  [ tokenIn : { "tokenIn" }, tokenOut : { "tokenOut" },
    amountIn : { << >> },
    normalAmountIn : AmountStrings,
    slippage : { AbsentSlippage, Number(SlippageMax) } ]

AllDecimals == [ tokenIn : 0 .. MaxDecimals, tokenOut : 0 .. MaxDecimals ]

InitParams ==
  /\ concurrent = NoConcurrent
  /\ variant \in Variants
  /\ providers = Registry
  /\ op \in { "getQuote", "swapTokens", "swapTokensByProvider" }
  /\ providerArg = (IF op = "swapTokensByProvider" THEN Registry[1] ELSE "")
  /\ request \in (IF variant = "tee" THEN TeeRequests ELSE MetaRequests)
  /\ decimals \in (IF variant = "tee"
                   THEN { [ tokenIn |-> TeeDecimals, tokenOut |-> TeeDecimals ] }
                   ELSE AllDecimals)
  /\ params = NoParams
  /\ pc = (IF variant = "tee" THEN "request" ELSE "createSwapParams")
  /\ caller = ""
  /\ initStatus = [ p \in ProviderNames |-> "idle" ]
  /\ activeProviders = << >>
  /\ roundActive = { }
  /\ isSupported = [ p \in ProviderNames |-> "" ]
  /\ quoteRecipients = { }
  /\ recipient = ""
  /\ supportCalls = [ p \in ProviderNames |-> 0 ]
  /\ quoteCalls = [ p \in ProviderNames |-> 0 ]
  /\ task = [ p \in ProviderNames |-> "idle" ]
  /\ quotes = << >>
  /\ bestQuote = NoQuote
  /\ target = "null"
  /\ txFamily = ""
  /\ txTo = ""
  /\ approval = NoApproval
  /\ unsignedTx = ""
  /\ calls = << >>
  /\ inFlight = { }
  /\ threw = { }
  /\ signedTx = ""
  /\ receipt = NoReceipt
  /\ result = NoResult

\* app.useGlobalPipes(new ValidationPipe()): the body is validated against the
\* DTO of the operation and handed on as it came
ValidationPipe ==
  /\ pc = "request" /\ variant = "tee"
  /\ IF IsNumberString(request.amountIn) /\ SlippageValid(op, request.slippage)
     THEN pc' = "createSwapParams" /\ UNCHANGED result
     ELSE Fail("Bad Request")
  /\ UNCHANGED << reqVars, params, gapVars, quoteVars, execVars >>

\* params = createSwapParams(request)
ApplyCreateSwapParams ==
  /\ pc = "createSwapParams"
  /\ params' = createSwapParams(variant, request, decimals.tokenIn, decimals.tokenOut)
  /\ IF params'.built THEN pc' = "params" /\ UNCHANGED result
     ELSE Fail(params'.error)
  /\ UNCHANGED << reqVars, gapVars, quoteVars, execVars >>

NextParams == ValidationPipe \/ ApplyCreateSwapParams

SpecParams == InitParams /\ [][NextParams]_vars

\* ------------------------------------- two requests on the same SwapService
\* const activeProviders = [] / const quotes = []: the array a call of
\* getActiveProviders or getQuotesFromProviders creates is that call's own
NewArrayOfService(r) == 1

NewArray(r) == r

InitPair ==
  /\ concurrent = NoConcurrent
  /\ variant \in Variants
  /\ providers = Registry
  /\ op = "getQuote"
  /\ providerArg = ""
  /\ request = DefaultRequest
  /\ decimals = DefaultDecimals
  /\ params = NoParams
  /\ pc = "concurrent"
  /\ caller = ""
  /\ initStatus = [ p \in ProviderNames |-> "idle" ]
  /\ activeProviders = << >>
  /\ roundActive = { }
  /\ isSupported = [ p \in ProviderNames |-> "" ]
  /\ quoteRecipients = { }
  /\ recipient = ""
  /\ supportCalls = [ p \in ProviderNames |-> 0 ]
  /\ quoteCalls = [ p \in ProviderNames |-> 0 ]
  /\ task = [ p \in ProviderNames |-> "idle" ]
  /\ quotes = << >>
  /\ bestQuote = NoQuote
  /\ target = "null"
  /\ txFamily = ""
  /\ txTo = ""
  /\ approval = NoApproval
  /\ unsignedTx = ""
  /\ calls = << >>
  /\ inFlight = { }
  /\ threw = { }
  /\ signedTx = ""
  /\ receipt = NoReceipt
  /\ result = NoResult

\* the variables of the single request, which the aggregation calls leave alone
singleVars ==
  << variant, providers, op, providerArg, request, decimals, params, pc, gapVars,
     quoteVars, execVars, result >>

\* the entries request r's own isInit calls have put into its array
Initialised(r) ==
  { e \in SeqToSet(concurrent.activeProviders[NewArray(r)]) : e.call = r }

\* request r calls getActiveProviders (c = "getProviders") or
\* getQuotesFromProviders (c = "getQuotesFromProviders"): the arrays are
\* created and this.providers.map starts every isInit
ConcurrentCall(r, c) ==
  /\ concurrent.pc[r] = "start"
  /\ concurrent' =
       [ concurrent EXCEPT
           !.pc[r] = "getActiveProviders",
           !.caller[r] = c,
           !.initStatus[r] = [ p \in ProviderNames |->
                                IF p \in SeqToSet(providers) THEN "pending" ELSE "idle" ],
           !.activeProviders[NewArray(r)] = << >>,
           !.quotes[NewArray(r)] =
              IF c = "getQuotesFromProviders" THEN << >> ELSE @ ]
  /\ UNCHANGED singleVars

\* provider.isInit() of p settles for request r and the callback runs to its
\* end, after which nothing refers to it
ConcurrentIsInit(r, p, outcome) ==
  /\ concurrent.initStatus[r][p] = "pending"
  /\ outcome = "true" => Cardinality(Initialised(r)) < MaxActive
  /\ concurrent' =
       [ concurrent EXCEPT
           !.initStatus[r][p] = "idle",
           !.activeProviders[NewArray(r)] =
              ActivePush(@, [ provider |-> p, call |-> r ], outcome) ]
  /\ UNCHANGED singleVars

\* Promise.all of request r's isInit callbacks has settled: getProviders returns
\* the array, getQuotesFromProviders maps it, one callback per entry, each run
\* up to its isSwapSupported call
ConcurrentGetActiveProvidersReturn(r) ==
  /\ concurrent.pc[r] = "getActiveProviders"
  /\ PromiseAll({ InitCallback(concurrent.initStatus[r][p]) : p \in SeqToSet(providers) })
       = "fulfilled"
  /\ LET returned == concurrent.activeProviders[NewArray(r)] IN
     concurrent' =
       [ concurrent EXCEPT
           !.pc[r] = IF concurrent.caller[r] = "getProviders"
                     THEN "done" ELSE "getQuotesFromProviders",
           !.initStatus[r] = [ p \in ProviderNames |-> "idle" ],
           !.activeProviders[NewArray(r)] = << >>,
           !.task[r] = [ p \in ProviderNames |->
                          IF /\ concurrent.caller[r] = "getQuotesFromProviders"
                             /\ p \in { e.provider : e \in SeqToSet(returned) }
                          THEN "isSwapSupported" ELSE "idle" ],
           !.result[r] = IF concurrent.caller[r] = "getProviders"
                         THEN returned ELSE @ ]
  /\ UNCHANGED singleVars

\* provider.isSwapSupported(fromToken, toToken) of p settles for request r
ConcurrentIsSwapSupported(r, p, outcome) ==
  /\ concurrent.task[r][p] = "isSwapSupported"
  /\ concurrent' =
       [ concurrent EXCEPT
           !.task[r] = Released([ @ EXCEPT ![p] = AfterSupport(outcome) ]) ]
  /\ UNCHANGED singleVars

\* provider.getSwapQuote(params) of p settles for request r:
\* quotes.push({ ...quote, provider }) when it returned
ConcurrentGetSwapQuote(r, p, returns) ==
  /\ concurrent.task[r][p] = "getSwapQuote"
  /\ concurrent' =
       [ concurrent EXCEPT
           !.task[r] = Released([ @ EXCEPT ![p] = IF returns THEN "quoted"
                                                   ELSE "quoteThrew" ]),
           !.quotes[NewArray(r)] =
              IF returns THEN Append(@, [ provider |-> p, call |-> r ]) ELSE @ ]
  /\ UNCHANGED singleVars

\* Promise.all of request r's quote callbacks has settled:
\* getQuotesFromProviders returns quotes
ConcurrentGetQuotesFromProvidersReturn(r) ==
  /\ concurrent.pc[r] = "getQuotesFromProviders"
  /\ PromiseAll({ QuoteCallback(concurrent.task[r][p]) : p \in ProviderNames })
       = "fulfilled"
  /\ concurrent' =
       [ concurrent EXCEPT
           !.pc[r] = "done",
           !.task[r] = [ p \in ProviderNames |-> "idle" ],
           !.quotes[NewArray(r)] = << >>,
           !.result[r] = concurrent.quotes[NewArray(r)] ]
  /\ UNCHANGED singleVars

NextPair ==
  \/ \E r \in Requests, c \in { "getProviders", "getQuotesFromProviders" } :
       ConcurrentCall(r, c)
  \/ \E r \in Requests, p \in ProviderNames, outcome \in { "true", "false", "throw" } :
       ConcurrentIsInit(r, p, outcome)
  \/ \E r \in Requests : ConcurrentGetActiveProvidersReturn(r)
  \/ \E r \in Requests, p \in ProviderNames, outcome \in { "true", "false", "throw" } :
       ConcurrentIsSwapSupported(r, p, outcome)
  \/ \E r \in Requests, p \in ProviderNames, returns \in BOOLEAN :
       ConcurrentGetSwapQuote(r, p, returns)
  \/ \E r \in Requests : ConcurrentGetQuotesFromProvidersReturn(r)

SpecPair == InitPair /\ [][NextPair]_vars

\* ------------------------------------------------------------------ claims
QuoteSet == SeqToSet(quotes)

MaxOutput(qs) == CHOOSE m \in { q.outputAmount : q \in qs } :
                   \A q \in qs : q.outputAmount <= m

\* position of provider p in the registration order
RegIndex(p) == CHOOSE i \in 1 .. Len(Registry) : Registry[i] = p

InFlight(p) == task[p] \in { "isSwapSupported", "getSwapQuote" }

IsActive(p) == initStatus[p] = "true"

\* C1: for every non-empty list, getBestQuote returns an element of the list
\* whose outputAmount is at least the outputAmount of every quote in the list.
C1_BestHasMaxOutput ==
  (pc = "selected" /\ quotes # << >>) =>
    /\ bestQuote \in QuoteSet
    /\ \A q \in QuoteSet : bestQuote.outputAmount >= q.outputAmount

\* a list of three whose largest outputAmount is not in first place was reduced
C1_Witness ==
  /\ pc = "selected" /\ Len(quotes) = 3
  /\ quotes[1].outputAmount < quotes[2].outputAmount
  /\ quotes[3].outputAmount < quotes[2].outputAmount
  /\ bestQuote = quotes[2]

C3_TieKeepsEarliestRegistered ==
  pc = "getQuotesFromProvidersReturned" =>
    \A q \in QuoteSet :
      (/\ q.outputAmount = getBestQuote(quotes).outputAmount
       /\ q.fee = getBestQuote(quotes).fee)
      => RegIndex(getBestQuote(quotes).provider) <= RegIndex(q.provider)

\* the providers whose getSwapQuote has returned a quote in this round
Quoted == { p \in ProviderNames : task[p] = "quoted" }

\* C4: the list getQuotesFromProviders returns holds exactly one quote for each
\* active provider whose isSwapSupported returned true and whose getSwapQuote
\* succeeded, none for any other provider, and the aggregation never throws.
C4_QuotesExactlyTheSuccessful ==
  /\ ~(result.kind = "error" /\ result.error \in { "getSwapQuote", "isSwapSupported" })
  /\ pc = "getQuotesFromProvidersReturned" =>
       /\ { q.provider : q \in QuoteSet } = Quoted
       /\ Len(quotes) = Cardinality(Quoted)
       /\ Quoted \subseteq { p \in ProviderNames : IsActive(p) }

\* three active providers, one threw on getSwapQuote: two entries are returned
C4_Witness ==
  /\ pc = "getQuotesFromProvidersReturned"
  /\ Cardinality(roundActive) = 3
  /\ Cardinality({ p \in ProviderNames : task[p] = "quoteThrew" }) = 1
  /\ Len(quotes) = 2

\* C5: once getQuotesFromProviders has returned, no isSwapSupported or
\* getSwapQuote call of the round is still in flight.
C5_ReturnsAfterAllSettled ==
  (\E p \in ProviderNames : InFlight(p)) => pc = "getQuotesFromProviders"

\* the round returned although one provider had thrown and another one failed
\* on its quote before the last one answered
C5_Witness ==
  /\ pc = "getQuotesFromProvidersReturned"
  /\ Cardinality(roundActive) = 4
  /\ task["okx"] = "supportThrew"
  /\ task["kyber"] = "quoteThrew"
  /\ Len(quotes) = 2 /\ quotes[1].provider = "openOcean"

\* the name given to swapTokensByProvider is not the name of an active provider
NotAmongActive ==
  \/ providerArg \notin ProviderNames
  \/ initStatus[providerArg] \in { "false", "throw" }

ExecutionCalls ==
  { "getUnsignedTransaction", "approveERC20IfNot", "buildAndSendTransaction",
    "waitForTransaction" }

\* C6: swapTokensByProvider with a name that no active provider bears fails
\* with 'Unsupported provider' and makes no execution call.
C6_UnknownProviderFails ==
  (op = "swapTokensByProvider" /\ NotAmongActive) =>
    /\ SeqToSet(calls) \cap ExecutionCalls = { }
    /\ pc \in { "start", "getActiveProviders", "getActiveProvidersReturned", "done" }
    /\ pc = "done" => (result.kind = "error" /\ result.error = "Unsupported provider")

\* a registered provider whose isInit threw was named while another is active
C6_Witness ==
  /\ op = "swapTokensByProvider" /\ pc = "done"
  /\ providerArg = "kyber" /\ initStatus["kyber"] = "throw"
  /\ initStatus["okx"] = "true"
  /\ result.error = "Unsupported provider"

\* C7: in both variants a non-EVM transaction from getUnsignedTransaction makes
\* the request fail with the unsupported-signer error, and approveERC20IfNot,
\* buildAndSendTransaction and waitForTransaction are never called.
C7_NonEvmFailsFast ==
  txFamily = "solana" =>
    /\ pc = "done" /\ result.kind = "error" /\ result.error = "NotSupportedSigner"
    /\ SeqToSet(calls) \cap
         { "approveERC20IfNot", "buildAndSendTransaction", "waitForTransaction" } = { }

\* C8: NoValidQuote lists exactly the providers found active and considered in
\* the round that produced no quote.
C8_NoValidQuoteListsConsidered ==
  (result.kind = "error" /\ result.error = "NoValidQuote") =>
    SeqToSet(result.providers) = roundActive

\* C9: getActiveProviders never throws and returns exactly the providers whose
\* isInit, called during this invocation, returned true, each exactly once.
C9_ActiveExactlyInitTrue ==
  /\ ~(result.kind = "error" /\ result.error = "isInit")
  /\ pc = "getActiveProvidersReturned" =>
       /\ \A p \in SeqToSet(providers) : initStatus[p] \in { "true", "false", "throw" }
       /\ SeqToSet(activeProviders) = { p \in ProviderNames : IsActive(p) }
       /\ Len(activeProviders) = Cardinality(SeqToSet(activeProviders))

\* the second invocation of a request returned a list that differs from the
\* first one's, leaving out a provider that threw and one that returned false
C9_Witness ==
  /\ pc = "getActiveProvidersReturned" /\ caller = "NoValidQuote"
  /\ roundActive = { "okx", "kyber" }
  /\ initStatus["okx"] = "throw" /\ initStatus["kyber"] = "false"
  /\ activeProviders = << "openOcean", "oneInchV6" >>

\* C10: the list returned by getActiveProviders keeps the registration order.
C10_ActiveInRegistrationOrder ==
  pc = "getActiveProvidersReturned" =>
    \A i, j \in 1 .. Len(activeProviders) :
      i < j => RegIndex(activeProviders[i]) < RegIndex(activeProviders[j])

\* C11: in the meta variant, when the decimals lookup fails the request fails
\* before any provider operation (isInit, isSwapSupported, getSwapQuote,
\* getUnsignedTransaction) has been invoked for it.
C11_DecimalsFailureBeforeProviders ==
  (variant = "meta" /\ result.kind = "error" /\ result.error = "getDecimals") =>
    /\ \A p \in ProviderNames : initStatus[p] = "idle" /\ task[p] = "idle"
    /\ roundActive = { }
    /\ "getUnsignedTransaction" \notin SeqToSet(calls)

\* the external calls of _swapTokens in the order of its text
ExecOrder ==
  << "getWallet", "getUnsignedTransaction", "approveERC20IfNot",
     "buildAndSendTransaction", "waitForTransaction" >>

LastCall == IF calls = << >> THEN { } ELSE { calls[Len(calls)] }

Occurrences(call) == Cardinality({ i \in 1 .. Len(calls) : calls[i] = call })

\* C12: getQuote has no side effects on any path: it never calls
\* getUnsignedTransaction, getWallet, approveERC20IfNot, buildAndSendTransaction
\* or waitForTransaction.
C12_GetQuoteHasNoSideEffects ==
  op = "getQuote" =>
    /\ calls = << >> /\ inFlight = { }
    /\ signedTx = "" /\ receipt = NoReceipt

C12_Witness ==
  /\ op = "getQuote" /\ pc = "done" /\ result.kind = "quote"
  /\ \E p \in ProviderNames : initStatus[p] = "true" /\ p # result.provider

\* C13: an ExecutionResult is returned only when a receipt was obtained; its
\* status is 'success' exactly when the receipt's status code is 1 and 'failed'
\* otherwise, its transactionHash is the receipt's hash and its provider is the
\* provider getUnsignedTransaction was called on.
C13_ExecutionResultFromReceipt ==
  result.kind = "exec" =>
    /\ receipt.state = "receipt"
    /\ calls = ExecOrder
    /\ result.status = "success" <=> receipt.status = 1
    /\ result.status = "failed" <=> receipt.status # 1
    /\ result.transactionHash = receipt.hash
    /\ result.provider = target

C13_Witness ==
  /\ result.kind = "exec" /\ result.status = "failed"
  /\ receipt.status = 2 /\ receipt.hash # signedTx

\* C16: getBestQuote on an empty list returns null and never throws; it returns
\* null exactly when the list is empty.
C16_NullIffEmpty ==
  pc = "selected" =>
    /\ bestQuote # TypeError
    /\ bestQuote = NoQuote <=> quotes = << >>

C16_Witness == pc = "selected" /\ quotes = << >> /\ bestQuote = NoQuote

\* C17: in _swapTokens the external calls happen in the order getWallet,
\* getUnsignedTransaction, approveERC20IfNot, buildAndSendTransaction,
\* waitForTransaction, each starting only after the previous one completed
\* successfully; when a step throws no later step is called.
C17_ExecutionOrder ==
  /\ Len(calls) <= Len(ExecOrder)
  /\ calls = SubSeq(ExecOrder, 1, Len(calls))
  /\ inFlight \subseteq LastCall
  /\ threw \subseteq LastCall
  /\ threw # { } => pc = "done" /\ result.kind = "error"

C17_Witness ==
  /\ threw = { "approveERC20IfNot" } /\ pc = "done"
  /\ calls = SubSeq(ExecOrder, 1, 3)

\* C18: within one swap request getUnsignedTransaction is called on at most one
\* provider: the best quote's provider in best mode, the named active provider
\* in explicit mode; when it throws the request fails without another provider
\* being tried and without approval or submission.
C18_OneProviderExecutes ==
  /\ Occurrences("getUnsignedTransaction") <= 1
  /\ "getUnsignedTransaction" \in SeqToSet(calls) =>
       /\ op \in { "swapTokens", "swapTokensByProvider" }
       /\ op = "swapTokens" => target = bestQuote.provider
       /\ op = "swapTokensByProvider" =>
            target = providerArg /\ initStatus[providerArg] = "true"
  /\ "getUnsignedTransaction" \in threw =>
       /\ pc = "done" /\ result.kind = "error"
       /\ calls = SubSeq(ExecOrder, 1, 2)
       /\ signedTx = "" /\ receipt = NoReceipt

C18_Witness ==
  /\ "getUnsignedTransaction" \in threw /\ op = "swapTokensByProvider"
  /\ \E p \in ProviderNames : p # target /\ initStatus[p] = "true"

\* C19: when buildAndSendTransaction returns no signed result the request fails
\* with 'Cannot send transaction' and waitForTransaction is never called; when
\* waitForTransaction returns no receipt the request fails with 'Cannot find
\* transaction receipt' and no ExecutionResult is produced.
C19_MissingResults ==
  /\ signedTx = "null" =>
       /\ pc = "done" /\ result.kind = "error"
       /\ result.error = "Cannot send transaction"
       /\ "waitForTransaction" \notin SeqToSet(calls)
  /\ receipt.state = "null" =>
       /\ pc = "done" /\ result.kind = "error"
       /\ result.error = "Cannot find transaction receipt"

C19_Witness == signedTx = "null" /\ calls = SubSeq(ExecOrder, 1, 4)

\* C20: within one request nothing is retried and no two signer submissions
\* overlap: getUnsignedTransaction, approveERC20IfNot, buildAndSendTransaction
\* and waitForTransaction are each invoked at most once, isSwapSupported and
\* getSwapQuote at most once per provider, and approveERC20IfNot and
\* buildAndSendTransaction are never in flight together.
C20_NoRetryNoOverlap ==
  /\ \A call \in SeqToSet(ExecOrder) : Occurrences(call) <= 1
  /\ \A p \in ProviderNames : supportCalls[p] <= 1 /\ quoteCalls[p] <= 1
  /\ ~ ({ "approveERC20IfNot", "buildAndSendTransaction" } \subseteq inFlight)

C20_Witness ==
  /\ result.kind = "exec"
  /\ \A call \in SeqToSet(ExecOrder) : Occurrences(call) = 1
  /\ Cardinality({ p \in ProviderNames : supportCalls[p] = 1 }) = 3
  /\ Cardinality({ p \in ProviderNames : quoteCalls[p] = 1 }) = 2

RECURSIVE Pow10(_)
Pow10(n) == IF n = 0 THEN 1 ELSE 10 * Pow10(n - 1)

RECURSIVE FractionUnits(_, _, _)
\* the digits of a fraction from position i on, each with its weight in units
\* of 10^-dec
FractionUnits(frac, i, dec) ==
  IF i > Len(frac) THEN 0
  ELSE DigitValue(frac[i]) * Pow10(dec - i) + FractionUnits(frac, i + 1, dec)

\* d * 10^dec for the decimal string d with at most dec fractional digits
Scaled(d, dec) ==
  (IF Negative(d) THEN 0 - 1 ELSE 1) *
    (FromDigits(Whole(d)) * Pow10(dec) + FractionUnits(Fraction(d), 1, dec))

IsDecimalString(d) == Matches(d) /\ Len(Whole(d)) + Len(Fraction(d)) > 0

\* C14: in the meta variant createSwapParams sets amount to d * 10^decimals of
\* the source token for every decimal string d with at most that many
\* fractional digits, never by the destination token's decimals, scaled once.
C14_AmountScaledBySourceDecimals ==
  ( /\ variant = "meta" /\ pc \in { "params", "done" }
    /\ IsDecimalString(request.normalAmountIn)
    /\ Len(Fraction(request.normalAmountIn)) <= decimals.tokenIn ) =>
    /\ params.built
    /\ params.amount = Scaled(request.normalAmountIn, decimals.tokenIn)
    /\ params.fromDecimals = decimals.tokenIn

C14_Witness ==
  /\ variant = "meta" /\ pc = "params"
  /\ request.normalAmountIn = << "1", ".", "5" >>
  /\ decimals = [ tokenIn |-> 2, tokenOut |-> 0 ]
  /\ params.amount = 150

\* C15: params have slippageTolerance 0.5 when the request carries no
\* slippage, a request whose slippage lies outside [0, 100] is rejected, and
\* no params reach a provider with slippageTolerance undefined or outside
\* [0, 100].
C15_SlippageDefaultedAndBounded ==
  /\ (params.built /\ request.slippage.kind = "absent") =>
       params.slippageTolerance = Number(SlippageDefault)
  /\ ( /\ request.slippage.kind = "number"
       /\ (request.slippage.value < SlippageMin \/ request.slippage.value > SlippageMax) )
       => ~ params.built
  /\ params.built =>
       /\ params.slippageTolerance.kind = "number"
       /\ params.slippageTolerance.value >= SlippageMin
       /\ params.slippageTolerance.value <= SlippageMax

\* the positions of a request inside the map of getQuotesFromProviders
QuotePhase == { "getQuotesFromProviders", "getQuotesFromProvidersReturned" }

\* C21: in one aggregation round no isSwapSupported or getSwapQuote call starts
\* on any provider before every isInit call of the round has settled, and such
\* calls are made only on providers whose isInit returned true in the round.
C21_QuotesAfterEveryIsInit ==
  /\ \A p \in ProviderNames :
       InFlight(p) =>
         /\ initStatus[p] = "true"
         /\ \A q \in ProviderNames : initStatus[q] \in { "true", "false", "throw" }
  /\ pc \in QuotePhase =>
       \A p \in ProviderNames :
         (supportCalls[p] > 0 \/ quoteCalls[p] > 0 \/ task[p] # "idle")
           => initStatus[p] = "true"

C21_Witness ==
  /\ \E p \in ProviderNames : task[p] = "isSwapSupported"
  /\ \E p \in ProviderNames : task[p] = "getSwapQuote"
  /\ \E q \in ProviderNames : initStatus[q] = "false" /\ supportCalls[q] = 0
  /\ \E q \in ProviderNames : initStatus[q] = "throw" /\ supportCalls[q] = 0

\* the providers whose quote is in the list
QuoteProviders == { quotes[i].provider : i \in 1 .. Len(quotes) }

\* C22: getSwapQuote is called on a provider only after that provider's
\* isSwapSupported has returned true in the same round; when isSwapSupported
\* returns false or throws, getSwapQuote is never called on the provider and
\* the provider contributes no quote.
C22_QuoteOnlyWhenSupported ==
  pc \in QuotePhase =>
    \A p \in ProviderNames :
      /\ (quoteCalls[p] > 0 \/ task[p] \in { "getSwapQuote", "quoted", "quoteThrew" }
            \/ p \in QuoteProviders)
           => isSupported[p] = "true" /\ supportCalls[p] = 1
      /\ (isSupported[p] = "false" \/ task[p] \in { "notSupported", "supportThrew" })
           => /\ quoteCalls[p] = 0
              /\ p \notin QuoteProviders
              /\ task[p] \in { "notSupported", "supportThrew" }

C22_Witness ==
  /\ pc = "getQuotesFromProvidersReturned"
  /\ \E p \in ProviderNames : task[p] = "notSupported" /\ isSupported[p] = "false"
  /\ \E p \in ProviderNames : task[p] = "supportThrew" /\ isSupported[p] = ""
  /\ \E p \in ProviderNames : task[p] = "quoted" /\ quoteCalls[p] = 1

\* C23: the params passed to getUnsignedTransaction have recipient equal to
\* the signer wallet's address in both entry modes, and the params passed to
\* getSwapQuote during the quoting phase carry no recipient (isSwapSupported
\* receives the two tokens only).
C23_RecipientIsWallet ==
  /\ "getUnsignedTransaction" \in SeqToSet(calls) => recipient = WalletAddress
  /\ quoteRecipients \subseteq { "" }
  /\ pc \in QuotePhase => recipient = ""

C23_Witness ==
  /\ op = "swapTokens" /\ pc = "getUnsignedTransaction"
  /\ quoteRecipients = { "" } /\ recipient = WalletAddress

RECURSIVE ScaleDigits(_, _, _)
\* k times a number plus a carry, on its decimal digits from the lowest one
ScaleDigits(ds, k, carry) ==
  IF ds = << >>
  THEN (IF carry = 0 THEN << >>
        ELSE << carry % 10 >> \o ScaleDigits(ds, k, carry \div 10))
  ELSE << (k * Head(ds) + carry) % 10 >>
         \o ScaleDigits(Tail(ds), k, (k * Head(ds) + carry) \div 10)

RECURSIVE Power(_, _)
\* k^n on its decimal digits from the lowest one
Power(k, n) == IF n = 0 THEN << 1 >> ELSE ScaleDigits(Power(k, n - 1), k, 0)

RECURSIVE Decrement(_)
\* a positive number minus one, on its decimal digits from the lowest one
Decrement(ds) ==
  IF Head(ds) > 0 THEN << Head(ds) - 1 >> \o Tail(ds)
  ELSE << 9 >> \o Decrement(Tail(ds))

\* the digits from the highest one, as characters
Written(ds) == [ i \in 1 .. Len(ds) |-> DigitChar(ds[Len(ds) + 1 - i]) ]

\* 2^256 - 1 = 65536^16 - 1 as a decimal string
MaxUint256 == Written(Decrement(Power(65536, 16)))

\* C24: every approveERC20IfNot call carries amount 2^256 - 1 whatever the
\* swap amount, tokenAddress the source token's address, and spenderAddress
\* the to of the unsigned transaction the same request then submits.
C24_ApprovalArguments ==
  /\ "approveERC20IfNot" \in SeqToSet(calls) =>
       /\ approval.amount = MaxUint256
       /\ approval.tokenAddress = request.tokenIn
       /\ approval.spenderAddress = txTo
  /\ "approveERC20IfNot" \notin SeqToSet(calls) => approval = NoApproval
  /\ "buildAndSendTransaction" \in SeqToSet(calls) =>
       unsignedTx = approval.spenderAddress

C24_Witness ==
  /\ pc = "waitForTransaction"
  /\ approval.spenderAddress = "router2" /\ unsignedTx = "router2"
  /\ approval.amount # BigIntToString(params.amount)

Terminated == pc = "done" /\ result.kind # "pending"

\* every provider call of the quote round has settled
RoundSettled == pc = "getQuotesFromProviders" /\ \A p \in ProviderNames : ~ InFlight(p)

\* a token-metadata lookup of createSwapParams is outstanding
DecimalsPending == pc \in { "getDecimalsIn", "getDecimalsOut" }

\* C25 as stated: when every started provider and signer call eventually
\* settles, every request eventually terminates in a result or an error, and the
\* aggregation returns once the slowest provider call of its round has settled.
C25_RequestsTerminate ==
  /\ <> Terminated
  /\ RoundSettled ~> pc # "getQuotesFromProviders"

\* C25 amended: when every started provider and signer call eventually settles,
\* every request eventually terminates in a result or an error unless one of its
\* token-metadata lookups never settles, and the aggregation returns once the
\* slowest provider call of its round has settled.
C25_TerminatesUnlessLookupHangs ==
  /\ (<> Terminated) \/ (<>[] DecimalsPending)
  /\ RoundSettled ~> pc # "getQuotesFromProviders"

C25_Witness ==
  /\ Terminated /\ op = "swapTokens" /\ result.kind = "exec" /\ variant = "meta"
  /\ \E p \in ProviderNames : initStatus[p] = "throw"
  /\ Cardinality({ p \in ProviderNames : quoteCalls[p] = 1 }) = 3

\* the entries of a list
Entries(list) == { list[i] : i \in 1 .. Len(list) }

\* C26: two requests running concurrently on the same SwapService do not
\* interfere: the active-provider list and the quote list of a request, and the
\* list it returns, hold only entries produced by that request's own provider
\* calls, and the provider registry keeps its entries and their order.
C26_RequestsDoNotInterfere ==
  /\ \A r \in Requests :
       /\ \A e \in Entries(concurrent.activeProviders[NewArray(r)]) : e.call = r
       /\ \A e \in Entries(concurrent.quotes[NewArray(r)]) : e.call = r
       /\ \A e \in Entries(concurrent.result[r]) : e.call = r
  /\ providers = Registry

C26_Witness ==
  /\ \A r \in Requests :
       /\ concurrent.pc[r] = "getQuotesFromProviders"
       /\ Len(concurrent.quotes[NewArray(r)]) = 1
       /\ \E p \in ProviderNames : concurrent.task[r][p] = "getSwapQuote"
  /\ concurrent.quotes[NewArray(1)][1].provider = concurrent.quotes[NewArray(2)][1].provider

====
